---- MODULE Spec2Model ----
(***************************************************************************)
(* A model of the UCI packet decoder of parse_uci (src/src/uci.rs and      *)
(* src/src/main.rs): hex string -> bytes -> Packet -> registry lookup ->   *)
(* static / TLV / calibration / range-data decoding, with the records the  *)
(* Printer receives and the panics (out-of-bounds index, slice on a        *)
(* non-boundary) the decode can end in.                                    *)
(*                                                                         *)
(* Conventions.  A string is a sequence of characters, each a one-element  *)
(* TLA+ string; "U+00E9" and "U+20AC" stand for the two- and three-byte    *)
(* UTF-8 characters e-acute and euro sign.  Bytes are 0..255.  Rust        *)
(* indices are 0-based, TLA+ sequences 1-based: byte i of a Rust vector v  *)
(* is v[i + 1].                                                            *)
(***************************************************************************)
EXTENDS Integers, Sequences, FiniteSets, TLC

VARIABLES
    input,    \* the String handed to parse
    pc,       \* "start" | "packet" | "config" | "range" | "done"
    hex,      \* the Result parse_hexstr returned to to_packet
    pkt,      \* Packet.bytes once to_packet returned Ok, <<>> before / otherwise
    out,      \* the lines printed so far, in order
    result,   \* "none" | "ok" | "err" | "panic"
    st,       \* the locals of the decode loop in progress (offset, n, num, ...)
    ent,      \* the TLV entry handled by the last print_config iteration
    reads,    \* the payload indices read through Packet::get/slice by the last step
    cli,      \* "arg": main decodes args[1]; "sh": main's read loop
    stdin,    \* "sh": what read_line has still to return, in order
    log,      \* "sh": the lines decoded so far, each with what it printed
    chk,      \* a call of Field::length_compatible: its arguments and its answer
    once,     \* per lazy static: "incomplete" | "running" | "complete"
    cell,     \* per lazy static: 0 for None, k for the value the k-th initializer stored
    builds,   \* per lazy static: how many times its initializer ran
    thr       \* the concurrent callers of parse: the statics each has still to
              \* dereference, where it is in the dereference, the values it saw

vars == <<input, pc, hex, pkt, out, result, st, ent, reads, cli, stdin, log,
          chk, once, cell, builds, thr>>

\* the variables a decode leaves alone
outside == <<cli, stdin, log, chk, once, cell, builds, thr>>

(***************************************************************************)
(* Bounds of the model.                                                    *)
(***************************************************************************)
MaxStrLen == 10   \* longest free-form input string, in characters
MaxEdits == 1     \* characters of a free-form input that differ from "0"
MaxBody == 6      \* longest TLV body (count byte + entries) of CORE_SET_CONFIG
MaxAppBody == 5   \* longest TLV body after the session id of SESSION_SET_APP_CONFIG
MaxPayload == 6   \* longest payload of the other sampled packets
MaxRangeTail == 24  \* longest tail after the header of a RANGE_DATA payload

(***************************************************************************)
(* Strings.                                                                *)
(***************************************************************************)
Min(a, b) == IF a < b THEN a ELSE b

HexDigitChars ==
    <<"0", "1", "2", "3", "4", "5", "6", "7", "8", "9",
      "a", "b", "c", "d", "e", "f">>

UpperHexChars == <<"A", "B", "C", "D", "E", "F">>

\* the value of each hex digit
HexDigitValue ==
    [c \in {HexDigitChars[i] : i \in 1..16} \cup {UpperHexChars[i] : i \in 1..6} |->
        IF \E i \in 1..16 : HexDigitChars[i] = c
        THEN (CHOOSE i \in 1..16 : HexDigitChars[i] = c) - 1
        ELSE (CHOOSE i \in 1..6 : UpperHexChars[i] = c) + 9]

\* char::to_digit(16): the value of a hex digit, -1 for any other character
ToDigit(c) == IF c \in DOMAIN HexDigitValue THEN HexDigitValue[c] ELSE -1

\* the number of bytes of a character's UTF-8 encoding
Utf8Width(c) ==
    IF c = "U+00E9" THEN 2 ELSE IF c = "U+20AC" THEN 3 ELSE 1

\* the UTF-8 bytes of s, each as <<its character, its index within it>>
RECURSIVE Utf8(_)
Utf8(s) ==
    IF s = <<>> THEN <<>>
    ELSE [i \in 1..Utf8Width(Head(s)) |-> <<Head(s), i - 1>>] \o Utf8(Tail(s))

\* String::len(): the length in bytes
StrLen(s) == Len(Utf8(s))

\* str::is_char_boundary on the bytes u of a string
IsCharBoundary(u, i) ==
    i = 0 \/ i = Len(u) \/ (i < Len(u) /\ u[i + 1][2] = 0)

\* &s[i..j] panics unless i and j are char boundaries
StrSliceOk(u, i, j) == IsCharBoundary(u, i) /\ IsCharBoundary(u, j)

IsFirstByte(x) == x[2] = 0

\* &s[i..j] for char boundaries i <= j: the characters whose bytes are [i, j)
StrSlice(u, i, j) ==
    LET firsts == SelectSeq(SubSeq(u, i + 1, j), IsFirstByte)
    IN  [k \in 1..Len(firsts) |-> firsts[k][1]]

\* the digits of from_str_radix after the sign handling: a leading '+' is
\* dropped, a '-' is kept for an unsigned type (and is then no digit)
RadixDigits(src) ==
    IF src # <<>> /\ Head(src) = "+" THEN Tail(src) ELSE src

RECURSIVE DigitsValue(_, _)
DigitsValue(ds, acc) ==
    IF ds = <<>> THEN acc
    ELSE IF ToDigit(Head(ds)) < 0 THEN -1
    ELSE DigitsValue(Tail(ds), acc * 16 + ToDigit(Head(ds)))

\* u8::from_str_radix(src, 16): the value, or -1 for Err(ParseIntError)
FromStrRadix16(src) ==
    IF src = <<>> THEN -1
    ELSE IF Len(src) = 1 /\ Head(src) \in {"+", "-"} THEN -1
    ELSE LET v == DigitsValue(RadixDigits(src), 0)
         IN  IF v > 255 THEN -1 ELSE v

\* the n of parse_hexstr: the byte length rounded down to an even number
EvenLen(n) == IF n % 2 = 1 THEN n - 1 ELSE n

\* the closure of parse_hexstr at byte offset i: the byte, -1 for an Err,
\* -2 when the slice &s[i..i + 2] panics
HexPair(u, i) ==
    IF StrSliceOk(u, i, i + 2) THEN FromStrRadix16(StrSlice(u, i, i + 2)) ELSE -2

\* parse_hexstr: the closure over i = 0, 2, ..., n - 2, collected into a
\* Result; the first offset whose slice panics or whose pair is an Err ends it
parse_hexstr(s) ==
    LET u == Utf8(s)
        m == EvenLen(Len(u)) \div 2
        vals == [j \in 1..m |-> HexPair(u, 2 * j - 2)]
        bad == {j \in 1..m : vals[j] < 0}
        first == CHOOSE j \in bad : \A x \in bad : j <= x
    IN  IF bad = {} THEN [k |-> "ok", bytes |-> vals]
        ELSE IF vals[first] = -2 THEN [k |-> "panic", bytes |-> <<>>]
        ELSE [k |-> "err", bytes |-> <<>>]

(***************************************************************************)
(* Errors and to_packet.                                                   *)
(***************************************************************************)
\* UciPacketParseError: the message, with the numbers and bytes formatted into it
Error(msg, args, dump) == [msg |-> msg, args |-> args, dump |-> dump]

NoError == Error("", <<>>, <<>>)

\* PacketOf with the length check one byte too low: byte 3 of a 3-byte
\* vector is then read, which panics
PacketOf_ShortCheckOffByOne(bytes) ==
    IF Len(bytes) < 3
    THEN [k |-> "err", bytes |-> <<>>,
          e |-> Error("packet length is less than 4 bytes", <<>>, <<>>)]
    ELSE IF Len(bytes) < 4 THEN [k |-> "panic", bytes |-> <<>>, e |-> NoError]
    ELSE IF Len(bytes) - 4 # bytes[4]
    THEN [k |-> "err", bytes |-> <<>>,
          e |-> Error("payload length mismatch", <<bytes[4], Len(bytes) - 4>>, <<>>)]
    ELSE [k |-> "ok", bytes |-> bytes, e |-> NoError]

\* PacketOf rejecting only a payload shorter than declared
PacketOf_AcceptsLongPayload(bytes) ==
    IF Len(bytes) < 4
    THEN [k |-> "err", bytes |-> <<>>,
          e |-> Error("packet length is less than 4 bytes", <<>>, <<>>)]
    ELSE IF Len(bytes) - 4 < bytes[4]
    THEN [k |-> "err", bytes |-> <<>>,
          e |-> Error("payload length mismatch", <<bytes[4], Len(bytes) - 4>>, <<>>)]
    ELSE [k |-> "ok", bytes |-> bytes, e |-> NoError]

\* the checks of to_packet on the parsed bytes
PacketOf(bytes) ==
    IF Len(bytes) < 4
    THEN [k |-> "err", bytes |-> <<>>,
          e |-> Error("packet length is less than 4 bytes", <<>>, <<>>)]
    ELSE IF Len(bytes) - 4 # bytes[4]
    THEN [k |-> "err", bytes |-> <<>>,
          e |-> Error("payload length mismatch", <<bytes[4], Len(bytes) - 4>>, <<>>)]
    ELSE [k |-> "ok", bytes |-> bytes, e |-> NoError]

\* to_packet after parse_hexstr returned r
PacketFrom(r) ==
    IF r.k = "panic" THEN [k |-> "panic", bytes |-> <<>>, e |-> NoError]
    ELSE IF r.k = "err"
    THEN [k |-> "err", bytes |-> <<>>,
          e |-> Error("Failed to parse hex string", <<>>, <<>>)]
    ELSE PacketOf(r.bytes)

to_packet(s) == PacketFrom(parse_hexstr(s))

(***************************************************************************)
(* Packet.                                                                 *)
(***************************************************************************)
\* x >> 5 and x & 0xf on a u8
Shr5(x) == x \div 32

And0xF(x) == x % 16

PacketMt(p) == Shr5(p[1])

PacketGid(p) == And0xF(p[1])

PacketOid(p) == p[2]

PacketLen(p) == p[4]

\* Packet::get(idx) is bytes[idx + 4]: it panics unless idx + 4 < bytes.len()
GetOk(p, idx) == idx + 4 < Len(p)

Get(p, idx) == p[idx + 5]

\* Packet::slice(idx, len) is &bytes[idx + 4..idx + len + 4]
SliceOk(p, idx, len) == idx + len + 4 <= Len(p)

Slice(p, idx, len) == [i \in 1..len |-> p[idx + 4 + i]]

\* the Display of a Packet: mt, gid, oid, len
PacketHeader(p) == <<PacketMt(p), PacketGid(p), PacketOid(p), PacketLen(p)>>

(***************************************************************************)
(* Field schema.                                                           *)
(***************************************************************************)
\* Field(name, ParamType): ty is the variant, n its numeric argument, t the
\* list of a Table8, m the name of the map of a Map8
Field(name, ty, n, t, m) == [name |-> name, ty |-> ty, n |-> n, t |-> t, m |-> m]

F(name, ty, n) == Field(name, ty, n, <<>>, "")

FT(name, t) == Field(name, "Table8", 0, t, "")

FM(name, m) == Field(name, "Map8", 0, <<>>, m)

\* Field::size
size(field) ==
    CASE field.ty \in {"Hex8", "Dec8"} -> 1
      [] field.ty \in {"Hex16", "Dec16"} -> 2
      [] field.ty \in {"Hex32", "Dec32"} -> 4
      [] field.ty = "Q16" -> 2
      [] field.ty \in {"RFU", "HexArray", "CharArray"} -> field.n
      [] field.ty \in {"Table8", "Map8"} -> 1

\* length_compatible taking any length that is not below the size
length_compatible_AtLeast(field, len) ==
    IF size(field) = 0 THEN TRUE ELSE size(field) <= len

\* Field::length_compatible
length_compatible(field, len) ==
    IF size(field) = 0 THEN TRUE ELSE size(field) = len

(***************************************************************************)
(* Lookup tables.                                                          *)
(***************************************************************************)
(* STATUS_CODES: src/src/uci.rs lines 227-287 *)
STATUS_CODES ==
       (0 :> "OK")
    @@ (1 :> "REJECTED")
    @@ (2 :> "FAILED")
    @@ (3 :> "SYNTAX_ERROR")
    @@ (4 :> "INVALID_PARAM")
    @@ (5 :> "INVALID_RANGE")
    @@ (6 :> "INVALID_MESSAGE_SIZE")
    @@ (7 :> "UNKNOWN_GID")
    @@ (8 :> "UNKNOWN_OID")
    @@ (9 :> "READ_ONLY")
    @@ (10 :> "COMMAND_RETRY")
    @@ (17 :> "ERROR_SESSION_NOT_EXIST")
    @@ (18 :> "ERROR_SESSION_DUPLICATE")
    @@ (19 :> "ERROR_SESSION_ACTIVE")
    @@ (20 :> "ERROR_MAX_SESSIONS_EXCEEDED")
    @@ (21 :> "ERROR_SESSION_NOT_CONFIGURED")
    @@ (22 :> "ERROR_ACTIVE_SESSIONS_ONGOING")
    @@ (23 :> "ERROR_MULTICAST_LIST_FULL")
    @@ (24 :> "ERROR_ADDRESS_NOT_FOUND")
    @@ (25 :> "ERROR_ADDRESS_ALREADY_PRESENT")
    @@ (32 :> "RANGING_TX_FAILED")
    @@ (33 :> "RANGING_RX_TIMEOUT")
    @@ (34 :> "RANGING_RX_PHY_DEC_FAILED")
    @@ (35 :> "RANGING_RX_PHY_TOA_FAILED")
    @@ (36 :> "RANGING_RX_PHY_STS_FAILED")
    @@ (37 :> "RANGING_RX_MAC_DEC_FAILED")
    @@ (38 :> "RANGING_RX_MAC_IE_DEC_FAILED")
    @@ (39 :> "RANGING_RX_MAC_IE_MISSING")
    @@ (80 :> "BINDING_SUCCESS")
    @@ (81 :> "BINDING_FAILURE")
    @@ (82 :> "BINDING_LIMIT_REACHED")
    @@ (83 :> "CALIBRATION_IN_PROGRESS")
    @@ (84 :> "DEVICE_TEMP_REACHED_THERMAL_RUNAWAY")
    @@ (85 :> "FEATURE_NOT_SUPPORTED")
    @@ (86 :> "NUM_PACKET_EXCEEDS_1000_FOR_TEST_PER_RX")
    @@ (87 :> "CAILBRATION_NOT_CONFIGURED")
    @@ (112 :> "NO_SE")
    @@ (114 :> "SE_RECOVERY_FAILURE")
    @@ (115 :> "SE_RECOVERY_SUCCESS")
    @@ (116 :> "SE_APDU_CMD_FAIL")
    @@ (117 :> "SE_AUTH_FAIL")
    @@ (129 :> "RANGING_PHY_RX_SECDEC_FAILED")
    @@ (130 :> "RANGING_PHY_RX_RSDEC_FAILED")
    @@ (131 :> "RANGING_PHY_RX_DEC_FAILED")
    @@ (132 :> "RANGING_PHY_RX_ERR_FAILED")
    @@ (133 :> "RANGING_PHY_RX_PHR_DECODE_FAILED")
    @@ (134 :> "RANGING_PHY_RX_SYNC_SFD_TIMEOUT")
    @@ (135 :> "RANGING_PHY_RX_PHR_DATA_RATE_ERROR")
    @@ (136 :> "RANGING_PHY_RX_PHR_RANGING_ERROR")
    @@ (137 :> "RANGING_PHY_RX_PHR_PREAMBLE_DUR_ERROR")
    @@ (138 :> "MAX_ACTIVE_GRANT_DURATION_EXCEEDED")
    @@ (139 :> "RANGING_SUSPENDED")
    @@ (144 :> "DATA_TRANSFER_ERROR")
    @@ (145 :> "DATA_NO_CREDIT_AVAILABLE")
    @@ (146 :> "DATA_TRANSFER_STOPPED")
    @@ (160 :> "COEX_WLAN_UART_RSP_TIMEOUT_OR_INVALID")
    @@ (161 :> "COEX_WLAN_UART_RSP_INVALID")

(* DEVICE_STATUS_CODES: src/src/uci.rs lines 289-295 *)
DEVICE_STATUS_CODES ==
       (1 :> "DEVICE_STATE_READY")
    @@ (2 :> "DEVICE_STATE_ACTIVE")
    @@ (255 :> "DEVICE_STATE_ERROR")

(* DEVICE_CONF_PARAMS: src/src/uci.rs lines 297-302 *)
DEVICE_CONF_PARAMS ==
       (0 :> F("DEVICE_STATE", "Hex8", 0))
    @@ (1 :> F("LOW_POWER_MODE", "Hex8", 0))

(* DEVICE_CONF_PARAMS_NXP: src/src/uci.rs lines 304-320 *)
DEVICE_CONF_PARAMS_NXP ==
       (<<228, 2>> :> F("DPD_WAKEUP_SRC", "Hex8", 0))
    @@ (<<228, 3>> :> F("WTX_COUNT_CONFIG", "Dec8", 0))
    @@ (<<228, 4>> :> F("DPD_ENTRY_TIMEOUT", "Dec16", 0))
    @@ (<<228, 5>> :> F("WIFI_COEX_FEATURE", "HexArray", 4))
    @@ (<<228, 38>> :> F("TX_BASE_BAND_CONFIG", "Hex8", 0))
    @@ (<<228, 39>> :> F("DDFS_TONE_CONFIG", "HexArray", 72))
    @@ (<<228, 40>> :> F("TX_PULSE_SHAPE_CONFIG", "HexArray", 3))
    @@ (<<228, 48>> :> F("CLK_CONFIG_CTRL", "HexArray", 2))
    @@ (<<228, 51>> :> F("NXP_EXTENDED_NTF_CONFIG", "Dec8", 0))
    @@ (<<228, 52>> :> F("CLOCK_PRESENT_WAITING_TIME", "Dec16", 0))
    @@ (<<228, 96>> :> F("ANTENNA_RX_IDX_DEFINE", "HexArray", 0))
    @@ (<<228, 97>> :> F("ANTENNA_TX_IDX_DEFINE", "HexArray", 0))
    @@ (<<228, 98>> :> F("ANTENNAS_RX_PAIR_DEFINE", "HexArray", 0))

(* APP_CONF_PARAMS: src/src/uci.rs lines 322-382 *)
APP_CONF_PARAMS ==
       (0 :> FT("DEVICE_TYPE", <<<<0, "Controlee">>, <<1, "Controller">>>>))
    @@ (1 :> FT("RANGING_ROUND_USAGE", <<<<0, "TDoA">>, <<1, "SS-TWR">>, <<2, "DS-TWR">>, <<3, "SS-TWR non-deferred">>, <<4, "DS-TWR non-deferred">>, <<5, "Downlink TDOA">>>>))
    @@ (2 :> FT("STS_CONFIG", <<<<0, "Static STS">>, <<1, "Dynamic STS">>, <<2, "Dynamic STS with sub-session key">>>>))
    @@ (3 :> F("MULTI_NODE_MODE", "Hex8", 0))
    @@ (4 :> F("CHANNEL_NUMBER", "Hex8", 0))
    @@ (5 :> F("NUMBER_OF_CONTROLEES", "Dec8", 0))
    @@ (6 :> F("DEVICE_MAC_ADDRESS", "Hex16", 0))
    @@ (7 :> F("DST_MAC_ADDRESS", "Hex16", 0))
    @@ (8 :> F("SLOT_DURATION", "Dec16", 0))
    @@ (9 :> F("RANGING_INTERVAL", "Dec32", 0))
    @@ (10 :> F("STS_INDEX", "Hex32", 0))
    @@ (11 :> F("MAC_FCS_TYPE", "Hex8", 0))
    @@ (12 :> F("RANGING_ROUND_CONTROL", "Hex8", 0))
    @@ (13 :> F("AOA_RESULT_REQ", "Hex8", 0))
    @@ (14 :> F("RANGE_DATA_NTF_CONFIG", "Hex8", 0))
    @@ (15 :> F("RANGE_DATA_NTF_PROXIMITY_NEAR", "Dec16", 0))
    @@ (16 :> F("RANGE_DATA_NTF_PROXIMITY_FAR", "Dec16", 0))
    @@ (17 :> FT("DEVICE_ROLE", <<<<0, "Responder">>, <<1, "Initiator">>, <<2, "Master Anchor">>, <<3, "Initiator & Responder">>, <<4, "Receiver">>>>))
    @@ (18 :> F("RFRAME_CONFIG", "Hex8", 0))
    @@ (20 :> F("PREAMBLE_CODE_INDEX", "Hex8", 0))
    @@ (21 :> F("SFD_ID", "Hex8", 0))
    @@ (22 :> F("PSDU_DATA_RATE", "Hex8", 0))
    @@ (23 :> F("PREAMBLE_DURATION", "Hex8", 0))
    @@ (26 :> F("RANGING_TIME_STRUCT", "Hex8", 0))
    @@ (27 :> F("SLOTS_PER_RR", "Hex8", 0))
    @@ (28 :> F("TX_ADAPTIVE_PAYLOAD_POWER", "Hex8", 0))
    @@ (30 :> F("RESPONDER_SLOT_INDEX", "Hex8", 0))
    @@ (31 :> F("PRF_MODE", "Hex8", 0))
    @@ (34 :> F("SCHEDULED_MODE", "Hex8", 0))
    @@ (35 :> F("KEY_ROTATION", "Hex8", 0))
    @@ (36 :> F("KEY_ROTATION_RATE", "Hex8", 0))
    @@ (37 :> F("SESSION_PRIORITY", "Dec8", 0))
    @@ (38 :> F("MAC_ADDRESS_MODE", "Hex8", 0))
    @@ (39 :> F("VENDOR_ID", "HexArray", 2))
    @@ (40 :> F("STATIC_STS_IV", "HexArray", 6))
    @@ (41 :> F("NUMBER_OF_STS_SEGMENTS", "Dec8", 0))
    @@ (42 :> F("MAX_RR_RETRY", "Dec16", 0))
    @@ (43 :> F("UWB_INITIATION_TIME", "Dec32", 0))
    @@ (44 :> F("HOPPING_MODE", "Hex8", 0))
    @@ (45 :> F("BLOCK_STRIDE_LENGTH", "Dec8", 0))
    @@ (46 :> F("RESULT_REPORT_CONFIG", "Hex8", 0))
    @@ (47 :> F("IN_BAND_TERMINATION_ATTEMPT_COUNT", "Hex8", 0))
    @@ (48 :> F("SUB_SESSION_ID", "Hex32", 0))
    @@ (49 :> F("BPRF_PHR_DATA_RATE", "Hex8", 0))
    @@ (50 :> F("MAX_NUMBER_OF_MEASUREMENTS", "Dec16", 0))
    @@ (51 :> F("BLINK_RANDOM_INTERVAL", "Dec16", 0))
    @@ (52 :> F("TDOA_REPORT_FREQUENCY", "Dec16", 0))
    @@ (53 :> F("STS_LENGTH", "Dec8", 0))

(* SESSION_STATE_CODES: src/src/uci.rs lines 384-390 *)
SESSION_STATE_CODES ==
       (0 :> "SESSION_STATE_INIT")
    @@ (1 :> "SESSION_STATE_DEINIT")
    @@ (2 :> "SESSION_STATE_ACTIVE")
    @@ (3 :> "SESSION_STATE_IDLE")

(* DEVCAL_PARAMS_NXP: src/src/uci.rs lines 392-418 *)
DEVCAL_PARAMS_NXP ==
       (0 :> F("VCO_PLL", "HexArray", 2))
    @@ (1 :> F("TX_POWER", "HexArray", 0))
    @@ (2 :> F("38.4MHz_XTAL_CAP_GM_CTRL", "HexArray", 3))
    @@ (3 :> F("RSSI_CALIB_CONSTANT1", "HexArray", 0))
    @@ (4 :> F("RSSI_CALIB_CONSTANT2", "HexArray", 0))
    @@ (5 :> F("SNR_CALIB_CONSTANT", "HexArray", 0))
    @@ (6 :> F("MANUAL_TX_POW_CTRL", "HexArray", 4))
    @@ (7 :> F("PDOA1_OFFSET", "HexArray", 0))
    @@ (8 :> F("PA_PPA_CALIB_CTRL", "HexArray", 2))
    @@ (9 :> F("TX_TEMPERATURE_COMP", "HexArray", 0))
    @@ (10 :> F("PDOA2_OFFSET", "HexArray", 0))
    @@ (11 :> F("AOA_MULTIPOINT_PDOA_CALIB", "HexArray", 0))
    @@ (12 :> F("AOA_MULTIPOINT_PDOA_CALIB", "HexArray", 0))
    @@ (13 :> F("AOA_ANTENNAS_MULTIPOINT_CALIB", "HexArray", 0))
    @@ (15 :> F("RX_ANT_DELAY_CALIB", "HexArray", 0))
    @@ (16 :> F("PDOA_OFFSET_CALIB", "HexArray", 0))
    @@ (17 :> F("PDOA_MANUFACT_ZERO_OFFSET_CALIB", "HexArray", 0))
    @@ (18 :> F("AOA_THRESHOLD_PDOA", "HexArray", 0))
    @@ (19 :> F("RSSI_CALIB_CONSTANT_HIGH_PWR", "HexArray", 0))
    @@ (20 :> F("RSSI_CALIB_CONSTANT_LOW_PWR", "HexArray", 0))
    @@ (21 :> F("SNR_CALIB_CONSTANT_PER_ANTENNA", "HexArray", 0))
    @@ (23 :> F("TX_POWER_PER_ANTENNA", "HexArray", 0))
    @@ (24 :> F("TX_TEMPERATURE_COMP_PER_ANTENNA", "HexArray", 0))


\* the code -> label map a Map8 field refers to
CodeMap(m) ==
    CASE m = "STATUS_CODES" -> STATUS_CODES
      [] m = "DEVICE_STATUS_CODES" -> DEVICE_STATUS_CODES
      [] m = "SESSION_STATE_CODES" -> SESSION_STATE_CODES

(***************************************************************************)
(* Printer records and the field interpreter.                              *)
(***************************************************************************)
\* a formatted value: the format, the numbers or bytes formatted, a label
Val(fmt, data, label) == [fmt |-> fmt, data |-> data, label |-> label]

NoVal == Val("", <<>>, "")

\* one printed line: print_id, print_comment, print_param, or a println
Line(kind, name, ids, val) == [kind |-> kind, name |-> name, ids |-> ids, val |-> val]

\* the line parse prints for an error
ErrLine(e) == Line("error", e.msg, e.args, Val("text", e.dump, ""))

\* the outcome of a formatting call: "some" with the value, "none" (no
\* value), or "panic"; rd are the payload indices it went to read
Some(val, rd) == [k |-> "some", val |-> val, rd |-> rd]

None == [k |-> "none", val |-> NoVal, rd |-> {}]

Panic(rd) == [k |-> "panic", val |-> NoVal, rd |-> rd]

\* print_hexarr: get(i) for i in offset..offset+len-1, in order
print_hexarr(p, offset, len) ==
    IF \A i \in offset..(offset + len - 1) : GetOk(p, i)
    THEN Some(Val("hexarr", [i \in 1..len |-> Get(p, offset + i - 1)], ""),
              offset..(offset + len - 1))
    ELSE Panic({i \in offset..(offset + len - 1) :
                  \A j \in offset..(i - 1) : GetOk(p, j)})

\* LittleEndian::read_u16 / read_u32
LittleEndian(bs) ==
    IF Len(bs) = 2 THEN bs[1] + 256 * bs[2]
    ELSE bs[1] + 256 * bs[2] + 65536 * bs[3] + 16777216 * bs[4]

\* the printf! macro of print_field: the integer read depends on len alone
printf(p, fmt, offset, len) ==
    IF len = 1
    THEN IF GetOk(p, offset)
         THEN Some(Val(fmt, <<Get(p, offset)>>, ""), {offset})
         ELSE Panic({offset})
    ELSE LET w == IF len = 2 THEN 2 ELSE 4
         IN  IF SliceOk(p, offset, w)
             THEN Some(Val(fmt, <<LittleEndian(Slice(p, offset, w))>>, ""),
                       offset..(offset + w - 1))
             ELSE Panic(offset..(offset + w - 1))

\* the first pair of a Table8 list with the code, <<>> if none
RECURSIVE TableFind(_, _)
TableFind(t, code) ==
    IF t = <<>> THEN <<>>
    ELSE IF Head(t)[1] = code THEN Head(t)
    ELSE TableFind(Tail(t), code)

\* "{:#04x} ({})" on a hit, "{:#04x}(Unknown)" on a miss
CodeVal(code, hit, label) ==
    IF hit THEN Val("code", <<code>>, label) ELSE Val("code", <<code>>, "Unknown")

\* the value text of a field whose size differs from the observed length
MismatchVal(field, len) == Val("length mismatch", <<size(field), len>>, "")

\* the match of print_field on the ParamType, taken when the length fits
FormatField(field, p, offset, len) ==
    CASE field.ty \in {"Hex8", "Hex16", "Hex32"} -> printf(p, "hex", offset, len)
      [] field.ty \in {"Dec8", "Dec16", "Dec32"} -> printf(p, "dec", offset, len)
      [] field.ty = "CharArray" ->
            \* &pkt.bytes[offset..offset + len]: indexes the whole packet
            IF offset + len <= Len(p)
            THEN Some(Val("chars", [i \in 1..len |-> p[offset + i]], ""), {})
            ELSE Panic({})
      [] field.ty = "Table8" ->
            IF GetOk(p, offset)
            THEN LET x == TableFind(field.t, Get(p, offset))
                 IN  Some(CodeVal(Get(p, offset), x # <<>>,
                                  IF x # <<>> THEN x[2] ELSE ""), {offset})
            ELSE Panic({offset})
      [] field.ty = "Map8" ->
            IF GetOk(p, offset)
            THEN LET id == Get(p, offset)
                     t == CodeMap(field.m)
                 IN  Some(CodeVal(id, id \in DOMAIN t,
                                  IF id \in DOMAIN t THEN t[id] ELSE ""), {offset})
            ELSE Panic({offset})
      [] OTHER -> print_hexarr(p, offset, len)

\* print_field formatting the value before it compares the lengths
print_field_FormatsFirst(field, p, offset, len) ==
    IF field.ty = "RFU" THEN None
    ELSE LET v == FormatField(field, p, offset, len)
         IN  IF v.k = "panic" \/ length_compatible(field, len) THEN v
             ELSE Some(MismatchVal(field, len), v.rd)

print_field(field, p, offset, len) ==
    IF field.ty = "RFU" THEN None
    ELSE IF ~length_compatible(field, len) THEN Some(MismatchVal(field, len), {})
    ELSE FormatField(field, p, offset, len)

(***************************************************************************)
(* Static decoder.                                                         *)
(***************************************************************************)
\* the outcome of a decoder: "ok", "err" with the error, or "panic"; lines
\* are the records it printed, offset its running offset at the end
Outcome(k, lines, offset, rd, e) ==
    [k |-> k, lines |-> lines, offset |-> offset, rd |-> rd, e |-> e]

\* _print_static with the offset left alone by the fields that print nothing
RECURSIVE StaticFrom_RfuKeepsOffset(_, _, _, _, _, _)
StaticFrom_RfuKeepsOffset(p, fields, i, offset, lines, rd) ==
    IF i > Len(fields) THEN Outcome("ok", lines, offset, rd, NoError)
    ELSE LET field == fields[i]
             len == size(field)
         IN  IF offset + len > PacketLen(p)
             THEN Outcome("err", lines, offset, rd,
                          Error("length mismatch", <<>>, <<>>))
             ELSE LET v == print_field(field, p, offset, len)
                  IN  IF v.k = "panic"
                      THEN Outcome("panic", lines, offset, rd \cup v.rd, NoError)
                      ELSE StaticFrom_RfuKeepsOffset(p, fields, i + 1,
                                      IF v.k = "some" THEN offset + len ELSE offset,
                                      IF v.k = "some"
                                      THEN Append(lines,
                                                  Line("param", field.name, <<>>, v.val))
                                      ELSE lines,
                                      rd \cup v.rd)

\* _print_static over the fields from index i on
RECURSIVE StaticFrom(_, _, _, _, _, _)
StaticFrom(p, fields, i, offset, lines, rd) ==
    IF i > Len(fields) THEN Outcome("ok", lines, offset, rd, NoError)
    ELSE LET field == fields[i]
             len == size(field)
         IN  IF offset + len > PacketLen(p)
             THEN Outcome("err", lines, offset, rd,
                          Error("length mismatch", <<>>, <<>>))
             ELSE LET v == print_field(field, p, offset, len)
                  IN  IF v.k = "panic"
                      THEN Outcome("panic", lines, offset, rd \cup v.rd, NoError)
                      ELSE StaticFrom(p, fields, i + 1, offset + len,
                                      IF v.k = "some"
                                      THEN Append(lines,
                                                  Line("param", field.name, <<>>, v.val))
                                      ELSE lines,
                                      rd \cup v.rd)

_print_static(p, fields, offset) == StaticFrom(p, fields, 1, offset, <<>>, {})

print_static(p, fields) == _print_static(p, fields, 0)

(***************************************************************************)
(* TLV / extended-TLV decoder.                                             *)
(***************************************************************************)
\* 0xe0: the first id0 of the NXP extended TLVs
ExtIdMin == 224

\* UseExtended without the test that an extended table was supplied
UseExtended_IgnoresTable(b0, offset, plen, hasExt) ==
    ~(b0 < ExtIdMin \/ offset + 3 > plen)

\* the else branch of print_config's header test: the extended header is used
UseExtended(b0, offset, plen, hasExt) ==
    ~(b0 < ExtIdMin \/ offset + 3 > plen \/ ~hasExt)

\* the while condition's residue test: fewer than 2 bytes left at offset
IsResidue(offset, plen) == offset + 2 > plen

\* the offset after an entry whose value starts at voff
NextOffset(voff, len) == voff + len

\* Option<&HashMap<(u8, u8), Field>>
SomeTable(t) == [some |-> TRUE, t |-> t]

NoTable == [some |-> FALSE, t |-> <<>>]

\* what one iteration of print_config saw and did with its entry
Entry(k, off, b0, b1, ext, len, voff, hit, fits) ==
    [k |-> k, off |-> off, b0 |-> b0, b1 |-> b1, ext |-> ext, len |-> len,
     voff |-> voff, hit |-> hit, fits |-> fits]

NoEntry == Entry("", 0, 0, 0, FALSE, 0, 0, FALSE, FALSE)

\* the value printed for a table hit: print_field, "BUG" when it gives None
HitValue(field, p, voff, len) ==
    LET v == print_field(field, p, voff, len)
    IN  IF v.k = "none" THEN Some(Val("text", <<>>, "BUG"), {}) ELSE v

\* one iteration of the while loop of print_config at offset
ConfigIter(p, table, ext, offset) ==
    IF IsResidue(offset, PacketLen(p))
    THEN [k |-> "residue",
          lines |-> <<Line("param", "RESIDUE", <<>>, Val("text", <<>>, "parse error"))>>,
          offset |-> offset, rd |-> {},
          ent |-> Entry("residue", offset, 0, 0, FALSE, 0, 0, FALSE, FALSE)]
    ELSE LET b0 == Get(p, offset)
             b1 == Get(p, offset + 1)
             x == UseExtended(b0, offset, PacketLen(p), ext.some)
             len == IF x THEN Get(p, offset + 2) ELSE b1
             voff == IF x THEN offset + 3 ELSE offset + 2
             hdr == IF x THEN offset..(offset + 2) ELSE offset..(offset + 1)
             hit == IF x THEN <<b0, b1>> \in DOMAIN ext.t ELSE b0 \in DOMAIN table
             field == IF x THEN ext.t[<<b0, b1>>] ELSE table[b0]
             v == IF hit THEN HitValue(field, p, voff, len)
                  ELSE print_hexarr(p, voff, len)
             name == IF hit THEN field.name ELSE "Unknown"
             ids == IF hit /\ ~x THEN <<b0>> ELSE <<b0, b1>>
             e == Entry(IF v.k = "panic" THEN "panic" ELSE "ok", offset, b0, b1, x, len, voff, hit,
                        hit /\ length_compatible(field, len))
         IN  IF v.k = "panic"
             THEN [k |-> "panic", lines |-> <<>>, offset |-> voff,
                   rd |-> hdr \cup v.rd, ent |-> e]
             ELSE [k |-> "ok", lines |-> <<Line("param", name, ids, v.val)>>,
                   offset |-> NextOffset(voff, len), rd |-> hdr \cup v.rd, ent |-> e]

\* LoopResult with the RESIDUE break turned into an error
LoopResult_ResidueFails(k) ==
    IF k = "panic" THEN "panic" ELSE IF k = "residue" THEN "err" ELSE "ok"

\* what print_config returns once its loop ended in an iteration of kind k:
\* Ok(()) after the last entry and after a RESIDUE break alike
LoopResult(k) == IF k = "panic" THEN "panic" ELSE "ok"

\* ConfigStart with the offset of the decode before carried into this one
ConfigStart_CarriesOffset(p, off) ==
    IF PacketLen(p) < 5
    THEN Outcome("err", <<>>, off, {}, Error("payload len is zero", <<>>, <<>>))
    ELSE IF ~GetOk(p, off) THEN Outcome("panic", <<>>, off, {off}, NoError)
    ELSE Outcome("ok",
                 <<Line("param", "Number of parameters", <<>>,
                        Val("dec", <<Get(p, off)>>, ""))>>,
                 st.offset + off + 1, {off}, NoError)

\* print_config up to its loop: the length check, the count, its line
ConfigStart(p, off) ==
    IF PacketLen(p) < 5
    THEN Outcome("err", <<>>, off, {}, Error("payload len is zero", <<>>, <<>>))
    ELSE IF ~GetOk(p, off) THEN Outcome("panic", <<>>, off, {off}, NoError)
    ELSE Outcome("ok",
                 <<Line("param", "Number of parameters", <<>>,
                        Val("dec", <<Get(p, off)>>, ""))>>,
                 off + 1, {off}, NoError)

(***************************************************************************)
(* The packet registry.                                                    *)
(***************************************************************************)
\* mod mt, mod gid
CMD == 1

RSP == 2

NTF == 3

CORE == 0

SESSION == 1

RANGING == 2

PROPRIETARY == 14

\* PacketDesc: the name and the print function, given by its kind and data:
\* "static" runs print_static over fields; "config" runs print_static over
\* fields and then print_config(off, table, ext); "calib" and "range" are
\* the closures of NXP_SET_CALIBRATION CMD and RANGE_DATA NTF
Desc(name, kind, fields, off, table, ext) ==
    [name |-> name, kind |-> kind, fields |-> fields, off |-> off,
     table |-> table, ext |-> ext]

Static(name, fields) == Desc(name, "static", fields, 0, "", "")

print_status_only(name) == Static(name, <<FM("STATUS", "STATUS_CODES")>>)

PACKETS ==
       (<<CORE, 0, RSP>> :> print_status_only("CORE_DEVICE_RESET_RSP"))
    @@ (<<CORE, 1, NTF>> :> Static("CORE_DEVICE_STATUS_NTF",
            <<FM("STATUS", "DEVICE_STATUS_CODES")>>))
    @@ (<<CORE, 4, CMD>> :> Desc("CORE_SET_CONFIG_CMD", "config", <<>>, 0,
            "DEVICE_CONF_PARAMS", "DEVICE_CONF_PARAMS_NXP"))
    @@ (<<CORE, 4, RSP>> :> print_status_only("CORE_SET_CONFIG_RSP"))
    @@ (<<SESSION, 0, CMD>> :> Static("SESSION_INIT_CMD",
            <<F("SESSION_ID", "Hex32", 0), F("SESSION_TYPE", "Hex8", 0)>>))
    @@ (<<SESSION, 0, RSP>> :> print_status_only("SESSION_INIT_RSP"))
    @@ (<<SESSION, 2, NTF>> :> Static("SESSION_STATUS_NTF",
            <<F("SESSION_ID", "Hex32", 0),
              FM("SESSION_STATE", "SESSION_STATE_CODES"),
              F("REASON_CODE", "Hex8", 0)>>))
    @@ (<<SESSION, 3, CMD>> :> Desc("SESSION_SET_APP_CONFIG_CMD", "config",
            <<F("SESSION_ID", "Hex32", 0)>>, 4, "APP_CONF_PARAMS", ""))
    @@ (<<SESSION, 3, RSP>> :> print_status_only("SESSION_SET_APP_CONFIG_RSP"))
    @@ (<<PROPRIETARY, 0, CMD>> :> Static("NXP_CORE_DEVICE_INIT_CMD",
            <<F("MAJOR_VER", "Hex8", 0), F("MINOR_VER", "Hex8", 0)>>))
    @@ (<<PROPRIETARY, 0, RSP>> :> print_status_only("NXP_CORE_DEVICE_INIT_RSP"))
    @@ (<<PROPRIETARY, 17, CMD>> :> Desc("NXP_SET_CALIBRATION_CMD", "calib",
            <<>>, 0, "DEVCAL_PARAMS_NXP", ""))
    @@ (<<PROPRIETARY, 17, RSP>> :> print_status_only("NXP_SET_CALIBRATION_RSP"))
    @@ (<<PROPRIETARY, 16, NTF>> :> Static("NXP_SE_COMM_ERROR_NTF",
            <<FM("STATUS", "STATUS_CODES"), F("CLA_INS", "Hex16", 0),
              F("T=1_STATUS_CODE", "Hex16", 0)>>))
    @@ (<<PROPRIETARY, 19, NTF>> :> Static("NXP_BINDING_STAT_NTF",
            <<FT("STATUS", <<<<0, "Not bound">>, <<1, "Bound,unlocked">>,
                             <<2, "Bound,locked">>, <<3, "Unknown">>>>),
              F("SE binding count", "Dec8", 0),
              F("UWBS binding count", "Dec8", 0)>>))
    @@ (<<RANGING, 0, RSP>> :> print_status_only("RANGE_START_RSP"))
    @@ (<<RANGING, 0, CMD>> :> Static("RANGE_START_CMD",
            <<F("SESSION_ID", "Hex32", 0)>>))
    @@ (<<RANGING, 0, NTF>> :> Desc("RANGE_DATA_NTF", "range", <<>>, 0, "", ""))

\* the HashMap<u8, Field> a descriptor names
StdTable(name) ==
    CASE name = "DEVICE_CONF_PARAMS" -> DEVICE_CONF_PARAMS
      [] name = "APP_CONF_PARAMS" -> APP_CONF_PARAMS
      [] name = "DEVCAL_PARAMS_NXP" -> DEVCAL_PARAMS_NXP

\* the Option<&HashMap<(u8, u8), Field>> a descriptor names
ExtTable(name) ==
    IF name = "DEVICE_CONF_PARAMS_NXP" THEN SomeTable(DEVICE_CONF_PARAMS_NXP)
    ELSE NoTable

\* PacketId::from((pkt.gid(), pkt.oid(), pkt.mt()))
PacketIdOf(p) == <<PacketGid(p), PacketOid(p), PacketMt(p)>>

(***************************************************************************)
(* The bespoke decoders: calibration and range data.                       *)
(***************************************************************************)
\* the closure of NXP_SET_CALIBRATION CMD
Calibration(p) ==
    IF PacketLen(p) < 3
    THEN Outcome("err", <<>>, 0, {}, Error("payload len mismatch", <<>>, <<>>))
    ELSE LET chan == Line("param", "Channel", <<>>, Val("dec", <<Get(p, 0)>>, ""))
             id == Get(p, 1)
             hit == id \in DOMAIN DEVCAL_PARAMS_NXP
             len == PacketLen(p) - 2
             v == IF hit THEN HitValue(DEVCAL_PARAMS_NXP[id], p, 2, len)
                  ELSE print_hexarr(p, 2, len)
             name == IF hit THEN DEVCAL_PARAMS_NXP[id].name ELSE "Unknown"
         IN  IF v.k = "panic"
             THEN Outcome("panic", <<chan>>, 2, {0, 1} \cup v.rd, NoError)
             ELSE Outcome("ok", <<chan, Line("param", name, <<id>>, v.val)>>,
                          2, {0, 1} \cup v.rd, NoError)

\* impl From<u8> for MacType
MacTypeFrom(v) == IF v = 2 THEN "Short" ELSE IF v = 1 THEN "Long" ELSE "Unknown"

\* impl From<u8> for ReportType
ReportTypeFrom(v) ==
    IF v = 0 THEN "Tdoa" ELSE IF v = 1 THEN "Twr"
    ELSE IF v = 2 THEN "DownTdoa" ELSE "Unknown"

\* report_type as u8
ReportTypeAsU8(rt) ==
    IF rt = "Tdoa" THEN 0 ELSE IF rt = "Twr" THEN 1
    ELSE IF rt = "DownTdoa" THEN 2 ELSE 3

\* the header field list of RANGE_DATA NTF
RangeHeaderFields ==
    <<F("Sequence number", "Dec32", 0),
      F("Session ID", "Hex32", 0),
      F("", "RFU", 1),
      F("Ranging interval", "Dec32", 0),
      FT("Ranging type", <<<<0, "TDoA">>, <<1, "TWR">>, <<2, "Down TDoA">>>>),
      F("", "RFU", 1),
      FT("Mac addressing mode", <<<<0, "short">>, <<1, "long">>>>),
      F("", "RFU", 8),
      F("Number of Ranging Measurements", "Dec8", 0)>>

\* the field list of print_range_data_twr
TwrFields(mac_type) ==
    <<IF mac_type = "Short" THEN F("Mac Address", "Hex8", 0)
      ELSE F("Mac Address", "HexArray", 8),
      FM("Status", "STATUS_CODES"),
      FT("NLoS", <<<<0, "LoS">>, <<1, "NLoS">>>>),
      F("Distance", "Dec16", 0),
      F("AoA Azimuth", "Q16", 7),
      F("AoA Azimuth FOM", "Dec8", 0),
      F("AoA Elevation", "Q16", 7),
      F("AoA Elevation FOM", "Dec8", 0),
      F("AoA Destination Azimuth", "Q16", 7),
      F("AoA Destination Azimuth FOMR", "Dec8", 0),
      F("AoA Destination Elevation", "Q16", 7),
      F("AoA Destination Elevation FOMR", "Dec8", 0),
      F("Slot Index", "Dec8", 0)>>

print_range_data_twr(p, offset, mac_type) == _print_static(p, TwrFields(mac_type), offset)

\* the offsets the RANGE_DATA closure reads its locals from
RangeNrOffset == 24

RangeMacOffset == 16

RangeTypeOffset == 13

\* the least payload length RANGE_DATA accepts
RangeMinLen == 25

\* the RANGE_DATA closure up to its loop
RangeStart(p) ==
    IF PacketLen(p) < RangeMinLen
    THEN Outcome("err", <<>>, 0, {}, Error("mismatch length", <<>>, <<>>))
    ELSE LET h == print_static(p, RangeHeaderFields)
             locals == {RangeNrOffset, RangeMacOffset, RangeTypeOffset}
         IN  IF h.k # "ok" THEN Outcome(h.k, h.lines, h.offset, h.rd \cup locals, h.e)
             ELSE Outcome("ok",
                          Append(h.lines,
                                 Line("println", "nr", <<>>,
                                      Val("dec", <<Get(p, RangeNrOffset)>>, ""))),
                          RangeNrOffset, h.rd \cup locals, NoError)

\* iteration i of the for loop of the RANGE_DATA closure
RangeIter(p, i, offset, mac_type, report_type) ==
    LET comment == Line("comment", "Report", <<i>>, NoVal)
    IN  IF report_type = "Twr"
        THEN LET r == print_range_data_twr(p, offset, mac_type)
             IN  Outcome(r.k, <<comment>> \o r.lines, r.offset, r.rd, r.e)
        ELSE Outcome("err", <<comment>>, offset, {},
                     Error("unsupported measurement type",
                           <<ReportTypeAsU8(report_type)>>, <<>>))

(***************************************************************************)
(* print_packet and parse, as steps.                                       *)
(***************************************************************************)
\* Unrecognized dumping from the absolute index 4 instead of payload index 0
Unrecognized_AbsoluteOffset(p) ==
    LET h == print_hexarr(p, 4, PacketLen(p))
    IN  IF h.k = "panic" THEN Outcome("panic", <<>>, 0, h.rd, NoError)
        ELSE Outcome("err", <<>>, 0, h.rd,
                     Error("unrecognized packet", PacketHeader(p), h.val.data))

\* the None arm of print_packet: the error with the header and the payload dump
Unrecognized(p) ==
    LET h == print_hexarr(p, 0, PacketLen(p))
    IN  IF h.k = "panic" THEN Outcome("panic", <<>>, 0, h.rd, NoError)
        ELSE Outcome("err", <<>>, 0, h.rd,
                     Error("unrecognized packet", PacketHeader(p), h.val.data))

\* the descriptor's print function up to its loop, if it has one
PrintStart(p, d) ==
    CASE d.kind = "static" -> print_static(p, d.fields)
      [] d.kind = "calib" -> Calibration(p)
      [] d.kind = "range" -> RangeStart(p)
      [] d.kind = "config" ->
            LET s == print_static(p, d.fields)
                c == ConfigStart(p, d.off)
            IN  IF s.k # "ok" THEN s
                ELSE Outcome(c.k, s.lines \o c.lines, c.offset, s.rd \cup c.rd, c.e)

\* the number of iterations of the loop that follows
LoopCount(p, d) ==
    IF d.kind = "config" THEN Get(p, d.off)
    ELSE IF d.kind = "range" THEN Get(p, RangeNrOffset)
    ELSE 0

\* print_packet up to the loop of the print function
print_packet(p) ==
    IF PacketIdOf(p) \in DOMAIN PACKETS
    THEN PrintStart(p, PACKETS[PacketIdOf(p)])
    ELSE Unrecognized(p)

\* the locals of the loop in progress
Locals(offset, n, num, mac_type, report_type) ==
    [offset |-> offset, n |-> n, num |-> num,
     mac_type |-> mac_type, report_type |-> report_type]

NoLocals == Locals(0, 0, 0, "", "")

\* what parse prints when the decode ends with outcome o
EndLines(o) == IF o.k = "err" THEN <<ErrLine(o.e)>> ELSE <<>>

\* parse: to_packet and the Err arm
ToPacket ==
    /\ pc = "start"
    /\ \E h \in {parse_hexstr(input)} : \E r \in {PacketFrom(h)} :
           /\ hex' = h
           /\ pkt' = r.bytes
           /\ pc' = IF r.k = "ok" THEN "packet" ELSE "done"
           /\ result' = IF r.k = "ok" THEN "none" ELSE r.k
           /\ out' = IF r.k = "err" THEN <<ErrLine(r.e)>> ELSE <<>>
    /\ UNCHANGED <<input, st, ent, reads, outside>>

\* print_packet: the registry lookup, print_id and the print function up to
\* its loop; parse's println of the error it returns
PrintPacket ==
    /\ pc = "packet"
    /\ \E o \in {print_packet(pkt)} :
       LET id == PacketIdOf(pkt)
           hit == id \in DOMAIN PACKETS
           d == PACKETS[id]
           num == IF hit /\ o.k = "ok" THEN LoopCount(pkt, d) ELSE 0
           head == IF hit THEN <<Line("id", d.name, <<>>, NoVal)>> ELSE <<>>
       IN  /\ out' = out \o head \o o.lines \o EndLines(o)
           /\ reads' = o.rd
           /\ IF num > 0
              THEN /\ pc' = d.kind
                   /\ result' = "none"
                   /\ st' = Locals(o.offset, 0, num,
                                   IF d.kind = "range"
                                   THEN MacTypeFrom(Get(pkt, RangeMacOffset)) ELSE "",
                                   IF d.kind = "range"
                                   THEN ReportTypeFrom(Get(pkt, RangeTypeOffset)) ELSE "")
              ELSE /\ pc' = "done"
                   /\ result' = o.k
                   /\ st' = st
    /\ UNCHANGED <<input, hex, pkt, ent, outside>>

\* one iteration of the while loop of print_config; the Ok(()) after it
ConfigStep ==
    /\ pc = "config"
    /\ \E it \in {ConfigIter(pkt, StdTable(PACKETS[PacketIdOf(pkt)].table),
                             ExtTable(PACKETS[PacketIdOf(pkt)].ext), st.offset)} :
       LET more == it.k = "ok" /\ st.n + 1 < st.num
       IN  /\ out' = out \o it.lines
           /\ ent' = it.ent
           /\ reads' = it.rd
           /\ st' = [st EXCEPT !.offset = it.offset,
                               !.n = IF it.k = "ok" THEN @ + 1 ELSE @]
           /\ pc' = IF more THEN "config" ELSE "done"
           /\ result' = IF more THEN "none" ELSE LoopResult(it.k)
    /\ UNCHANGED <<input, hex, pkt, outside>>

\* one iteration of the for loop of RANGE_DATA; the Ok(()) after it
RangeStep ==
    /\ pc = "range"
    /\ \E o \in {RangeIter(pkt, st.n, st.offset, st.mac_type, st.report_type)} :
       LET more == o.k = "ok" /\ st.n + 1 < st.num
       IN  /\ out' = out \o o.lines \o EndLines(o)
           /\ reads' = o.rd
           /\ st' = [st EXCEPT !.offset = o.offset,
                               !.n = IF o.k = "ok" THEN @ + 1 ELSE @]
           /\ pc' = IF more THEN "range" ELSE "done"
           /\ result' = IF more THEN "none" ELSE o.k
    /\ UNCHANGED <<input, hex, pkt, ent, outside>>

Next == ToPacket \/ PrintPacket \/ ConfigStep \/ RangeStep

(***************************************************************************)
(* The lazy statics (lazy_static!): each table sits behind a Once.         *)
(***************************************************************************)
Statics ==
    {"PACKETS", "STATUS_CODES", "DEVICE_STATUS_CODES", "DEVICE_CONF_PARAMS",
     "DEVICE_CONF_PARAMS_NXP", "APP_CONF_PARAMS", "SESSION_STATE_CODES",
     "DEVCAL_PARAMS_NXP"}

\* a call of length_compatible: not made yet / made, with the answer
Check(field, len, asked, ok) == [field |-> field, len |-> len, asked |-> asked, ok |-> ok]

NoCheck == Check(F("", "RFU", 0), 0, FALSE, FALSE)

\* no static touched, no concurrent caller
NoThreads ==
    /\ once = [tb \in Statics |-> "incomplete"]
    /\ cell = [tb \in Statics |-> 0]
    /\ builds = [tb \in Statics |-> 0]
    /\ thr = <<>>

(***************************************************************************)
(* The inputs explored.                                                    *)
(***************************************************************************)
\* the sequences over S of length at most n
SeqsUpTo(S, n) == UNION {[1..k -> S] : k \in 0..n}

\* a byte as two lower-case hex digits, a byte sequence as a hex string
RECURSIVE HexStr(_)
HexStr(bytes) ==
    IF bytes = <<>> THEN <<>>
    ELSE <<HexDigitChars[(Head(bytes) \div 16) + 1],
           HexDigitChars[(Head(bytes) % 16) + 1]>> \o HexStr(Tail(bytes))

\* a packet with a consistent length byte
MkPacket(b0, oid, payload) == <<b0, oid, 0, Len(payload)>> \o payload

\* free-form strings: "0"s, with up to MaxEdits characters replaced
EditChars == {"1", "a", "F", "+", "-", "g", "U+00E9", "U+20AC"}

RECURSIVE Edited(_, _)
Edited(len, k) ==
    IF k = 0 THEN {[i \in 1..len |-> "0"]}
    ELSE LET prev == Edited(len, k - 1)
         IN  prev \cup {[s EXCEPT ![i] = c] : s \in prev, i \in 1..len, c \in EditChars}

FreeInputs == UNION {Edited(len, MaxEdits) : len \in 0..MaxStrLen}

\* TLV bodies: count byte and entries over a few telling bytes
\* (0x00, 0x01, 0x02: ids, lengths, counts; 0xe4: the NXP extended id0)
TlvBytes == {0, 1, 2, 228}

TlvBodies == SeqsUpTo(TlvBytes, MaxBody)

SessionIdBytes == <<120, 86, 52, 18>>

ConfigPackets ==
    {MkPacket(32, 4, body) : body \in TlvBodies}
    \cup {MkPacket(33, 3, SessionIdBytes \o body) :
              body \in {b \in TlvBodies : Len(b) <= MaxAppBody}}

\* every registered identity and some unregistered ones, as <<byte 0, oid>>
SampleHeaders ==
    {<<64, 0>>, <<96, 1>>, <<32, 4>>, <<64, 4>>, <<33, 0>>, <<65, 0>>,
     <<97, 2>>, <<33, 3>>, <<65, 3>>, <<46, 0>>, <<78, 0>>, <<46, 17>>,
     <<78, 17>>, <<110, 16>>, <<110, 19>>, <<66, 0>>, <<34, 0>>, <<98, 0>>,
     <<32, 0>>, <<0, 0>>, <<48, 4>>, <<77, 1>>, <<228, 228>>}

\* 0x01 is a status code, 0x0b is none
SampleBytes == {1, 11}

SamplePackets ==
    {MkPacket(h[1], h[2], pl) : h \in SampleHeaders,
                                pl \in SeqsUpTo(SampleBytes, MaxPayload)}

\* RANGE_DATA NTF payloads: the 25 header bytes, then a tail 1, 2, 3, ...
RangeHeader(rtype, mode, rfu0, nr) ==
    <<1, 0, 0, 0>> \o SessionIdBytes \o <<0>> \o <<200, 0, 0, 0>>
    \o <<rtype, 0, mode, rfu0, 0, 0, 0, 0, 0, 0, 0, nr>>

RangePackets ==
    {MkPacket(98, 0, RangeHeader(rtype, mode, rfu0, nr) \o [i \in 1..k |-> i]) :
        rtype \in {0, 1, 3}, mode \in {0, 1}, rfu0 \in {0, 1, 2},
        nr \in {0, 1, 2}, k \in 0..MaxRangeTail}

Inputs ==
    FreeInputs
    \cup {HexStr(p) : p \in ConfigPackets \cup SamplePackets \cup RangePackets}

Init ==
    /\ input \in Inputs
    /\ pc = "start"
    /\ hex = [k |-> "none", bytes |-> <<>>]
    /\ pkt = <<>>
    /\ out = <<>>
    /\ result = "none"
    /\ st = NoLocals
    /\ ent = NoEntry
    /\ reads = {}
    /\ cli = "arg"
    /\ stdin = <<>>
    /\ log = <<>>
    /\ chk = NoCheck
    /\ NoThreads

Spec == Init /\ [][Next]_vars

(***************************************************************************)
(* main's "sh" mode: the read loop over the lines of standard input.       *)
(***************************************************************************)
MaxLines == 3     \* most items (lines, a read error) standard input holds

\* what read_line returns: Ok with the line and its terminator, or Err
ReadOk(s) == [k |-> "ok", s |-> s]

ReadErr == [k |-> "err", s |-> <<>>]

\* the two pops of main: a last '\n', then a last '\r'
Chomp(s) ==
    LET a == IF s # <<>> /\ s[Len(s)] = "LF" THEN SubSeq(s, 1, Len(s) - 1) ELSE s
    IN  IF a # <<>> /\ a[Len(a)] = "CR" THEN SubSeq(a, 1, Len(a) - 1) ELSE a

\* a line decoded: the String parse was given, the lines it printed, its end
Decoded(s, lines, r) == [input |-> s, out |-> lines, result |-> r]

\* one turn of main's loop: read_line, the break on end-of-input or on a
\* read error, the pops, and the hand-over of the line to uci::parse; a
\* panic inside parse unwinds main, so no turn follows it
ReadLine ==
    /\ cli = "sh"
    /\ pc \in {"read", "done"}
    /\ pc = "done" => result # "panic"
    /\ log' = IF pc = "done" THEN Append(log, Decoded(input, out, result)) ELSE log
    /\ IF stdin = <<>> \/ Head(stdin).k = "err"
       THEN /\ pc' = "exit"
            /\ result' = IF stdin = <<>> THEN "eof" ELSE "ioerr"
            /\ UNCHANGED <<input, stdin>>
       ELSE /\ pc' = "start"
            /\ result' = "none"
            /\ input' = Chomp(Head(stdin).s)
            /\ stdin' = Tail(stdin)
    /\ out' = <<>>
    /\ UNCHANGED <<hex, pkt, st, ent, reads, cli, chk, once, cell, builds, thr>>

ShNext == ReadLine \/ ToPacket \/ PrintPacket \/ ConfigStep \/ RangeStep

\* what read_line returns: one line of each way a decode can end, with "\n",
\* with "\r\n" or without a terminator, and a read error
ShLines ==
    {ReadOk(<<"z", "z", "LF">>),                                  \* no hex string
     ReadOk(<<"LF">>),                                            \* 0 bytes
     ReadOk(HexStr(<<64, 0, 0, 2>>) \o <<"LF">>),                 \* declared 2, actual 0
     ReadOk(HexStr(MkPacket(64, 0, <<0>>)) \o <<"CR", "LF">>),    \* CORE_DEVICE_RESET_RSP
     ReadOk(HexStr(MkPacket(96, 0, <<1, 2>>))),                   \* no registry entry
     ReadOk(HexStr(MkPacket(32, 4, <<3, 0, 1, 1, 1, 1, 0>>)) \o <<"LF">>),  \* 2 TLVs, RESIDUE
     ReadOk(HexStr(MkPacket(32, 4, <<1, 2, 5, 0, 0>>)) \o <<"LF">>),  \* value beyond the payload
     ReadOk(HexStr(MkPacket(98, 0, RangeHeader(1, 0, 2, 1) \o [i \in 1..17 |-> i]))
            \o <<"LF">>),                                         \* one TWR measurement
     ReadErr}

\* read_line returns a line without '\n' only as the last one
ShStdins ==
    {s \in SeqsUpTo(ShLines, MaxLines) :
        \A i \in 1..(Len(s) - 1) :
            s[i].k = "ok" => (s[i].s # <<>> /\ s[i].s[Len(s[i].s)] = "LF")}

ShInit ==
    /\ cli = "sh"
    /\ stdin \in ShStdins
    /\ log = <<>>
    /\ input = <<>>
    /\ pc = "read"
    /\ hex = [k |-> "none", bytes |-> <<>>]
    /\ pkt = <<>>
    /\ out = <<>>
    /\ result = "none"
    /\ st = NoLocals
    /\ ent = NoEntry
    /\ reads = {}
    /\ chk = NoCheck
    /\ NoThreads

ShSpec == ShInit /\ [][ShNext]_vars

(***************************************************************************)
(* Field::length_compatible, called on every field over a range of lengths.*)
(***************************************************************************)
MaxFieldLen == 4  \* the lengths asked about: 0..MaxFieldLen and those around the size

\* the range of a table
FieldsOf(table) == {table[k] : k \in DOMAIN table}

\* the elements of a field list
FieldsIn(fields) == {fields[i] : i \in 1..Len(fields)}

\* every Field the program builds, and the sized ParamTypes over small sizes
AllFields ==
    FieldsOf(DEVICE_CONF_PARAMS) \cup FieldsOf(DEVICE_CONF_PARAMS_NXP)
    \cup FieldsOf(APP_CONF_PARAMS) \cup FieldsOf(DEVCAL_PARAMS_NXP)
    \cup UNION {FieldsIn(PACKETS[id].fields) : id \in DOMAIN PACKETS}
    \cup FieldsIn(RangeHeaderFields)
    \cup FieldsIn(TwrFields("Short")) \cup FieldsIn(TwrFields("Long"))
    \cup {F("", ty, n) : ty \in {"RFU", "HexArray", "CharArray"}, n \in 0..MaxFieldLen}

FieldLens(field) ==
    (0..MaxFieldLen)
    \cup {n \in {size(field) - 1, size(field), size(field) + 1} : n >= 0}

\* the decode variables of a specification that runs no decode
NoDecode(at) ==
    /\ input = <<>>
    /\ pc = at
    /\ hex = [k |-> "none", bytes |-> <<>>]
    /\ pkt = <<>>
    /\ out = <<>>
    /\ result = "none"
    /\ st = NoLocals
    /\ ent = NoEntry
    /\ reads = {}
    /\ cli = "arg"
    /\ stdin = <<>>
    /\ log = <<>>

FieldInit ==
    /\ NoDecode("field")
    /\ chk \in UNION {{Check(f, n, FALSE, FALSE) : n \in FieldLens(f)} : f \in AllFields}
    /\ NoThreads

\* the call field.length_compatible(len)
LengthCompatible ==
    /\ pc = "field"
    /\ ~chk.asked
    /\ chk' = Check(chk.field, chk.len, TRUE, length_compatible(chk.field, chk.len))
    /\ UNCHANGED <<input, pc, hex, pkt, out, result, st, ent, reads, cli, stdin, log,
                   once, cell, builds, thr>>

FieldNext == LengthCompatible

FieldSpec == FieldInit /\ [][FieldNext]_vars

(***************************************************************************)
(* Concurrent callers of parse, as far as the lazy statics go: a caller    *)
(* dereferences PACKETS and then the statics of the print function found.  *)
(* A dereference is Once::call_once (the first caller runs the initializer,*)
(* a caller that finds it running waits) followed by the read of the cell. *)
(***************************************************************************)
MaxThreads == 2   \* concurrent callers of parse

Threads == 1..MaxThreads

\* the Map8 statics a field list names, in list order
FieldMaps(fields) ==
    LET ms == SelectSeq(fields, LAMBDA f : f.ty = "Map8")
    IN  [i \in 1..Len(ms) |-> ms[i].m]

\* the statics a print function dereferences, in order
StaticsOf(d) ==
    CASE d.kind = "static" -> FieldMaps(d.fields)
      [] d.kind = "config" ->
            FieldMaps(d.fields) \o <<d.table>> \o (IF d.ext = "" THEN <<>> ELSE <<d.ext>>)
      [] d.kind = "calib" -> <<"DEVCAL_PARAMS_NXP">>
      [] d.kind = "range" -> <<"STATUS_CODES">>

\* print_packet: PACKETS.get(&id), then the print function of the entry
StaticsUsed(id) ==
    <<"PACKETS">> \o (IF id \in DOMAIN PACKETS THEN StaticsOf(PACKETS[id]) ELSE <<>>)

\* a caller with the statics it has still to dereference
Caller(use) == [use |-> use, at |-> IF use = <<>> THEN "done" ELSE "call", saw |-> {}]

\* the packets the callers decode: between them they use every static
ConcIds ==
    {<<CORE, 0, RSP>>, <<CORE, 1, NTF>>, <<CORE, 4, CMD>>, <<SESSION, 2, NTF>>,
     <<SESSION, 3, CMD>>, <<PROPRIETARY, 17, CMD>>, <<RANGING, 0, NTF>>, <<CORE, 0, CMD>>}

\* Once-without-exclusion: a caller that finds the initializer running runs it too
MayInitialize_Unguarded(s) == s # "complete"

\* Once::call_once: only the caller that finds INCOMPLETE runs the initializer
MayInitialize(s) == s = "incomplete"

\* the call of call_once by caller t on the static it needs next
CallOnce(t) ==
    /\ pc = "threads"
    /\ thr[t].at = "call"
    /\ LET tb == Head(thr[t].use)
       IN  IF once[tb] = "complete"
           THEN /\ thr' = [thr EXCEPT ![t].at = "read"]
                /\ once' = once
           ELSE /\ MayInitialize(once[tb])
                /\ once' = [once EXCEPT ![tb] = "running"]
                /\ thr' = [thr EXCEPT ![t].at = "init"]
    /\ UNCHANGED <<input, pc, hex, pkt, out, result, st, ent, reads, cli, stdin, log,
                   chk, cell, builds>>

\* the initializer of the static run by caller t: the table is built and stored
Initialize(t) ==
    /\ pc = "threads"
    /\ thr[t].at = "init"
    /\ LET tb == Head(thr[t].use)
       IN  /\ builds' = [builds EXCEPT ![tb] = @ + 1]
           /\ cell' = [cell EXCEPT ![tb] = builds[tb] + 1]
           /\ once' = [once EXCEPT ![tb] = "complete"]
    /\ thr' = [thr EXCEPT ![t].at = "read"]
    /\ UNCHANGED <<input, pc, hex, pkt, out, result, st, ent, reads, cli, stdin, log, chk>>

\* the read of the cell by caller t, and its lookups in the table it finds
Deref(t) ==
    /\ pc = "threads"
    /\ thr[t].at = "read"
    /\ LET tb == Head(thr[t].use)
           rest == Tail(thr[t].use)
       IN  thr' = [thr EXCEPT ![t] = [use |-> rest,
                                      at |-> IF rest = <<>> THEN "done" ELSE "call",
                                      saw |-> thr[t].saw \cup {<<tb, cell[tb]>>}]]
    /\ UNCHANGED <<input, pc, hex, pkt, out, result, st, ent, reads, cli, stdin, log,
                   chk, once, cell, builds>>

ConcInit ==
    /\ NoDecode("threads")
    /\ chk = NoCheck
    /\ once = [tb \in Statics |-> "incomplete"]
    /\ cell = [tb \in Statics |-> 0]
    /\ builds = [tb \in Statics |-> 0]
    /\ thr \in [Threads -> {Caller(StaticsUsed(id)) : id \in ConcIds}]

ConcNext == \E t \in Threads : CallOnce(t) \/ Initialize(t) \/ Deref(t)

ConcSpec == ConcInit /\ [][ConcNext]_vars

(***************************************************************************)
(* Properties.                                                             *)
(***************************************************************************)
\* the last line printed
LastLine == out[Len(out)]

\* the payload bytes [from, from + len) of the packet
PayloadBytes(from, len) == [i \in 1..len |-> pkt[from + 4 + i]]

\* the state right after ToPacket agrees with the to_packet outcome r
AgreesWith(r) ==
    IF r.k = "ok" THEN pkt = r.bytes
    ELSE IF r.k = "err"
    THEN pkt = <<>> /\ result = "err" /\ out = <<ErrLine(r.e)>>
    ELSE pkt = <<>> /\ result = "panic" /\ out = <<>>

\* the last iteration of print_config handled a TLV entry (no RESIDUE)
EntryHandled == ent.k \in {"ok", "panic"}

\* the call site passed an extended table: CORE_SET_CONFIG CMD alone does
ExtSupplied == pkt[1] % 16 = 0 /\ pkt[2] = 4

\* the standard table of the call site
StdTableOfPacket == IF ExtSupplied THEN DEVICE_CONF_PARAMS ELSE APP_CONF_PARAMS

\* the table field of the entry handled last
EntryField ==
    IF ent.ext THEN DEVICE_CONF_PARAMS_NXP[<<ent.b0, ent.b1>>]
    ELSE StdTableOfPacket[ent.b0]

\* C1: for every Packet accepted by to_packet the decode ends Ok or with a
\* typed error: no step reads a byte index at or beyond the end of the
\* packet's bytes, so the decode never aborts with an out-of-bounds access.
C1_NoOutOfBounds ==
    pkt # <<>> => (result # "panic" /\ \A i \in reads : i + 4 < Len(pkt))

\* C2: a hex string that parses to fewer than 4 bytes makes to_packet fail
\* with "packet length is less than 4 bytes" and no Packet, whatever a
\* payload-length comparison would have said.
C2_TooShort ==
    (hex.k = "ok" /\ Len(hex.bytes) < 4)
    => /\ pc = "done"
       /\ result = "err"
       /\ pkt = <<>>
       /\ out = <<ErrLine(Error("packet length is less than 4 bytes", <<>>, <<>>))>>

C2_Witness ==
    /\ pc = "done"
    /\ hex.k = "ok"
    /\ Len(hex.bytes) = 3
    /\ result = "err"

\* C3: at least 4 bytes with bytes[3] different from the number of bytes
\* after the header make to_packet fail with the payload length mismatch
\* that reports declared = bytes[3] and actual = len - 4; so every Packet
\* has at least 4 bytes and bytes[3] = length - 4.
C3_PayloadLengthMismatch ==
    /\ (hex.k = "ok" /\ Len(hex.bytes) >= 4 /\ hex.bytes[4] # Len(hex.bytes) - 4)
       => /\ pc = "done"
          /\ result = "err"
          /\ pkt = <<>>
          /\ out = <<ErrLine(Error("payload length mismatch",
                                   <<hex.bytes[4], Len(hex.bytes) - 4>>, <<>>))>>
    /\ pkt # <<>> => (Len(pkt) >= 4 /\ pkt[4] = Len(pkt) - 4)

C3_Witness ==
    /\ pc = "done"
    /\ Len(input) = 8
    /\ out = <<ErrLine(Error("payload length mismatch", <<1, 0>>, <<>>))>>

\* C4: an input string of odd length is handled exactly as the same string
\* without its last character: the same bytes on success, the same error
\* on failure.  (Stated for strings odd both in characters and in bytes.)
C4_OddLengthDropsLast ==
    (pc # "start" /\ Len(input) % 2 = 1 /\ StrLen(input) % 2 = 1)
    => AgreesWith(to_packet(SubSeq(input, 1, Len(input) - 1)))

\* C5: a two-character pair of the input that holds a character that is no
\* hex digit makes to_packet fail with the hex-parse error, and no Packet
\* exists.  (Stated for inputs of one-byte characters.)
C5_NonHexPairFails ==
    (/\ pc # "start"
     /\ \A i \in 1..Len(input) : Utf8Width(input[i]) = 1
     /\ \E j \in 1..(Len(input) \div 2) :
            ToDigit(input[2 * j - 1]) < 0 \/ ToDigit(input[2 * j]) < 0)
    => /\ result = "err"
       /\ pkt = <<>>
       /\ out = <<ErrLine(Error("Failed to parse hex string", <<>>, <<>>))>>

\* C6: a TLV entry is decoded with the extended 3-byte header (length at
\* offset + 2, value at offset + 3, key (id0, id1) in the extended table)
\* exactly if id0 >= 0xE0, at least 3 payload bytes remain at its offset and
\* an extended table was supplied; otherwise with the standard 2-byte header
\* (length = id1, value at offset + 2, key id0 in the standard table).
C6_ExtendedIff ==
    EntryHandled =>
        LET id0 == pkt[ent.off + 5]
            id1 == pkt[ent.off + 6]
            extended == id0 >= 224 /\ PacketLen(pkt) - ent.off >= 3 /\ ExtSupplied
            len == IF extended THEN pkt[ent.off + 7] ELSE id1
            voff == IF extended THEN ent.off + 3 ELSE ent.off + 2
            known == IF extended THEN <<id0, id1>> \in DOMAIN DEVICE_CONF_PARAMS_NXP
                     ELSE id0 \in DOMAIN StdTableOfPacket
        IN  /\ ent.ext = extended
            /\ ent.len = len
            /\ ent.voff = voff
            /\ ent.hit = known
            /\ reads \cap (ent.off..(voff - 1)) = ent.off..(voff - 1)
            /\ ent.k = "ok" =>
                 /\ st.offset = voff + len
                 /\ LastLine.kind = "param"
                 /\ LastLine.ids = (IF known /\ ~extended THEN <<id0>> ELSE <<id0, id1>>)
                 /\ LastLine.name =
                       (IF ~known THEN "Unknown"
                        ELSE IF extended THEN DEVICE_CONF_PARAMS_NXP[<<id0, id1>>].name
                        ELSE StdTableOfPacket[id0].name)
                 /\ LastLine.val.fmt = "hexarr" => LastLine.val.data = PayloadBytes(voff, len)

C6_Witness ==
    /\ ent.k = "ok"
    /\ ent.ext
    /\ ent.hit
    /\ ent.len > 0

\* C7: an iteration of print_config that starts with fewer than 2 payload
\* bytes left at the offset (and entries still to decode) reads no byte,
\* prints exactly one RESIDUE marker, ends the loop and returns Ok.
C7_Residue ==
    [][(pc = "config" /\ st.n < st.num /\ PacketLen(pkt) - st.offset < 2)
       => /\ reads' = {}
          /\ out' = Append(out, Line("param", "RESIDUE", <<>>,
                                     Val("text", <<>>, "parse error")))
          /\ Cardinality({i \in 1..Len(out') : out'[i].name = "RESIDUE"}) = 1
          /\ pc' = "done"
          /\ result' = "ok"]_vars

C7_Witness ==
    /\ pc = "done"
    /\ ent.k = "residue"
    /\ result = "ok"
    /\ LastLine.name = "RESIDUE"
    /\ Len(out) > 3

\* C8: an entry whose id is absent from its table never fails, whatever its
\* declared length: an Unknown record with the hex dump of the value range
\* is printed, the offset moves past the value, and decoding goes on.
C8_UnknownIdNeverFails ==
    (EntryHandled /\ ~ent.hit)
    => /\ ent.k = "ok"
       /\ result # "panic"
       /\ LastLine = Line("param", "Unknown", <<ent.b0, ent.b1>>,
                          Val("hexarr", PayloadBytes(ent.voff, ent.len), ""))
       /\ st.offset = ent.voff + ent.len
       /\ st.n < st.num => pc = "config"

\* C9: a valid Packet whose (gid, oid, mt) has no entry in PACKETS prints
\* exactly one line, with the header summary (mt, gid, oid, len) and the hex
\* dump of all payload bytes, and no name/value record; it never panics.
C9_UnrecognizedPacket ==
    (pkt # <<>> /\ <<pkt[1] % 16, pkt[2], pkt[1] \div 32>> \notin DOMAIN PACKETS)
    => /\ pc \in {"packet", "done"}
       /\ result # "panic"
       /\ pc = "done" =>
            /\ Len(out) = 1
            /\ out[1].kind = "error"
            /\ out[1].name = "unrecognized packet"
            /\ out[1].ids = <<pkt[1] \div 32, pkt[1] % 16, pkt[2], pkt[4]>>
            /\ out[1].val.data = SubSeq(pkt, 5, Len(pkt))
            /\ Len(out[1].val.data) = pkt[4]

C9_Witness ==
    /\ pc = "done"
    /\ pkt # <<>>
    /\ PacketIdOf(pkt) \notin DOMAIN PACKETS
    /\ Len(pkt) > 5
    /\ Len(out) = 1

\* C10: a TLV entry whose table field has a fixed size different from the
\* observed length is no error: the value printed under the field's name is
\* "length mismatch expected=size, actual=len", no value byte is read, the
\* offset advances by the observed length and the loop goes on.
C10_FieldMismatchDegrades ==
    (EntryHandled /\ ent.hit /\ size(EntryField) # 0 /\ size(EntryField) # ent.len)
    => /\ ent.k = "ok"
       /\ result \in {"none", "ok"}
       /\ LastLine = Line("param", EntryField.name,
                          IF ent.ext THEN <<ent.b0, ent.b1>> ELSE <<ent.b0>>,
                          Val("length mismatch", <<size(EntryField), ent.len>>, ""))
       /\ reads = ent.off..(ent.voff - 1)
       /\ st.offset = ent.voff + ent.len
       /\ st.n < st.num => pc = "config"

\* a mismatching entry was printed and a later entry was decoded after it
C10_Witness ==
    /\ ent.k = "ok"
    /\ ent.hit
    /\ size(EntryField) = ent.len
    /\ \E i \in 1..(Len(out) - 1) : out[i].val.fmt = "length mismatch"

\* the sum of the sizes of the fields before index i
RECURSIVE SizesBefore(_, _)
SizesBefore(fields, i) ==
    IF i <= 1 THEN 0 ELSE SizesBefore(fields, i - 1) + size(fields[i - 1])

\* the first index whose field would end beyond the payload when the walk
\* starts at start; Len(fields) + 1 if every field fits
StaticCut(fields, start, plen) ==
    LET bad == {i \in 1..Len(fields) :
                   start + SizesBefore(fields, i) + size(fields[i]) > plen}
    IN  IF bad = {} THEN Len(fields) + 1
        ELSE CHOOSE i \in bad : \A j \in bad : i <= j

\* the indices below cut of the fields that are not Reserved, in list order
Emitted(fields, cut) ==
    SelectSeq([i \in 1..(cut - 1) |-> i], LAMBDA i : fields[i].ty # "RFU")

\* the records of those fields, each valued at start + the sizes before it
StaticRecords(fields, start, p) ==
    LET idx == Emitted(fields, StaticCut(fields, start, PacketLen(p)))
    IN  [k \in 1..Len(idx) |->
            Line("param", fields[idx[k]].name, <<>>,
                 FormatField(fields[idx[k]], p,
                             start + SizesBefore(fields, idx[k]),
                             size(fields[idx[k]])).val)]

\* the payload indices of those fields
StaticRanges(fields, start, plen) ==
    UNION {(start + SizesBefore(fields, i))
              ..(start + SizesBefore(fields, i) + size(fields[i]) - 1) :
           i \in {j \in 1..(StaticCut(fields, start, plen) - 1) :
                     fields[j].ty # "RFU"}}

\* the error line the walk ends with, if a field does not fit
StaticEnd(fields, start, plen) ==
    IF StaticCut(fields, start, plen) <= Len(fields)
    THEN <<ErrLine(Error("length mismatch", <<>>, <<>>))>>
    ELSE <<>>

\* the registry entry of the packet
DescOfPacket == PACKETS[PacketIdOf(pkt)]

\* C11: _print_static walks its field list in order with a running offset.
\* It fails with "length mismatch" at the first field that would end beyond
\* the payload; the records printed are exactly the non-Reserved fields
\* before that point, in list order, each read at the start offset plus the
\* sizes of the fields before it; they stay printed, and bytes after the
\* last field are ignored.  Stated for the static packets, the RANGE_DATA
\* header and the TWR sub-records.
C11_StaticWalk ==
    [][/\ (/\ pc = "packet"
           /\ PacketIdOf(pkt) \in DOMAIN PACKETS
           /\ DescOfPacket.kind = "static")
          => LET fields == DescOfPacket.fields
                 plen == PacketLen(pkt)
             IN  /\ out' = <<Line("id", DescOfPacket.name, <<>>, NoVal)>>
                           \o StaticRecords(fields, 0, pkt)
                           \o StaticEnd(fields, 0, plen)
                 /\ reads' = StaticRanges(fields, 0, plen)
                 /\ pc' = "done"
                 /\ result' = (IF StaticEnd(fields, 0, plen) = <<>> THEN "ok" ELSE "err")
       /\ (/\ pc = "packet"
           /\ PacketIdOf(pkt) = <<RANGING, 0, NTF>>
           /\ PacketLen(pkt) >= 25)
          => /\ SubSeq(out', 1, 7) = <<Line("id", "RANGE_DATA_NTF", <<>>, NoVal)>>
                                     \o StaticRecords(RangeHeaderFields, 0, pkt)
             /\ StaticRanges(RangeHeaderFields, 0, PacketLen(pkt)) \subseteq reads'
       /\ (pc = "range" /\ st.report_type = "Twr")
          => LET fields == TwrFields(st.mac_type)
                 plen == PacketLen(pkt)
                 cut == StaticCut(fields, st.offset, plen)
             IN  /\ out' = out \o <<Line("comment", "Report", <<st.n>>, NoVal)>>
                           \o StaticRecords(fields, st.offset, pkt)
                           \o StaticEnd(fields, st.offset, plen)
                 /\ reads' = StaticRanges(fields, st.offset, plen)
                 /\ st'.offset = st.offset + SizesBefore(fields, cut)
                 /\ (cut <= Len(fields)) => (pc' = "done" /\ result' = "err")]_vars

\* a static packet that printed a record and then failed at a later field
C11_Witness ==
    /\ pc = "done"
    /\ pkt # <<>>
    /\ PacketIdOf(pkt) \in DOMAIN PACKETS
    /\ DescOfPacket.kind = "static"
    /\ result = "err"
    /\ Len(out) >= 3
    /\ out[2].kind = "param"
    /\ LastLine = ErrLine(Error("length mismatch", <<>>, <<>>))

\* the number of "Report" comments among the first i lines of the output
ReportsUpTo(i) == Cardinality({j \in 1..i : out[j].kind = "comment"})

\* the index in the TWR field list of the field with the name
TwrIndex(name) ==
    CHOOSE j \in 1..Len(TwrFields(st.mac_type)) : TwrFields(st.mac_type)[j].name = name

\* the 16-bit little-endian value at a payload offset, as a signed number
SignedLe16(off) ==
    LET raw == Get(pkt, off) + 256 * Get(pkt, off + 1)
    IN  IF raw >= 32768 THEN raw - 65536 ELSE raw

\* C12: a Q16(f) field is 2 bytes wide and print_field renders it as the
\* signed 16-bit little-endian raw value over 2^f (f = 7 for the AoA fields
\* of a TWR measurement), not as a dump of its bytes.
C12_Q16FixedPoint ==
    \A i \in 1..Len(out) :
        (out[i].kind = "param" /\ out[i].name \in {"AoA Azimuth", "AoA Elevation",
                "AoA Destination Azimuth", "AoA Destination Elevation"})
        => LET fields == TwrFields(st.mac_type)
               j == TwrIndex(out[i].name)
               off == RangeNrOffset
                      + (ReportsUpTo(i) - 1) * SizesBefore(fields, Len(fields) + 1)
                      + SizesBefore(fields, j)
           IN  /\ size(fields[j]) = 2
               /\ out[i].val = Val("fixed", <<SignedLe16(off), fields[j].n>>, "")

\* the while loop of print_config run to its end from (offset, n)
RECURSIVE ConfigRun(_, _, _, _, _)
ConfigRun(p, d, offset, n, num) ==
    LET it == ConfigIter(p, StdTable(d.table), ExtTable(d.ext), offset)
    IN  IF it.k = "ok" /\ n + 1 < num
        THEN LET r == ConfigRun(p, d, it.offset, n + 1, num)
             IN  [lines |-> it.lines \o r.lines, result |-> r.result]
        ELSE [lines |-> it.lines, result |-> LoopResult(it.k)]

\* the for loop of RANGE_DATA run to its end from (offset, i)
RECURSIVE RangeRun(_, _, _, _)
RangeRun(p, offset, i, num) ==
    LET o == RangeIter(p, i, offset, MacTypeFrom(Get(p, RangeMacOffset)),
                       ReportTypeFrom(Get(p, RangeTypeOffset)))
    IN  IF o.k = "ok" /\ i + 1 < num
        THEN LET r == RangeRun(p, o.offset, i + 1, num)
             IN  [lines |-> o.lines \o r.lines, result |-> r.result]
        ELSE [lines |-> o.lines \o EndLines(o), result |-> o.k]

\* print_packet(p) with the loop that follows its first part o run to the end
DecodeLoop(s, p, d, o, num) ==
    IF d.kind = "config"
    THEN Decoded(s, <<Line("id", d.name, <<>>, NoVal)>> \o o.lines
                    \o ConfigRun(p, d, o.offset, 0, num).lines,
                 ConfigRun(p, d, o.offset, 0, num).result)
    ELSE Decoded(s, <<Line("id", d.name, <<>>, NoVal)>> \o o.lines
                    \o RangeRun(p, o.offset, 0, num).lines,
                 RangeRun(p, o.offset, 0, num).result)

\* print_packet(p) and parse's println of its error
DecodePacket(s, p, o) ==
    IF PacketIdOf(p) \notin DOMAIN PACKETS
    THEN Decoded(s, o.lines \o EndLines(o), o.k)
    ELSE IF o.k = "ok" /\ LoopCount(p, PACKETS[PacketIdOf(p)]) > 0
    THEN DecodeLoop(s, p, PACKETS[PacketIdOf(p)], o,
                    LoopCount(p, PACKETS[PacketIdOf(p)]))
    ELSE Decoded(s, <<Line("id", PACKETS[PacketIdOf(p)].name, <<>>, NoVal)>>
                    \o o.lines \o EndLines(o), o.k)

\* parse's match on what to_packet returned
DecodeResult(s, r) ==
    IF r.k # "ok"
    THEN Decoded(s, IF r.k = "err" THEN <<ErrLine(r.e)>> ELSE <<>>, r.k)
    ELSE DecodePacket(s, r.bytes, print_packet(r.bytes))

\* parse(s) on its own: what it prints and how it ends, from s alone
Decode(s) == DecodeResult(s, to_packet(s))

\* C13: decoding keeps no state: whatever lines were decoded before (failed
\* ones included), what parse prints for a line and how it ends is what it
\* prints and how it ends for that string on its own, so also the same when
\* the string is decoded again.
C13_Stateless ==
    (cli = "sh" /\ pc = "done") => Decoded(input, out, result) = Decode(input)

\* the same TLV packet decoded before and after a line that failed
C13_Witness ==
    /\ cli = "sh"
    /\ Len(log) = 3
    /\ log[1].input = log[3].input
    /\ log[1].result = "ok"
    /\ Len(log[1].out) > 3
    /\ log[2].result = "err"

\* C14: in "sh" mode every line is decoded on its own and whatever problem
\* it causes is printed as text, after which the loop reads the next line;
\* only end-of-input or a read error ends the loop.
C14_LoopGoesOn ==
    cli = "sh"
    => /\ pc = "done" => result \in {"ok", "err"}
       /\ \A i \in 1..Len(log) : log[i].result \in {"ok", "err"}
       /\ pc = "exit" => (stdin = <<>> \/ Head(stdin).k = "err")

\* C15: length_compatible(len) is true exactly when size() = 0 or
\* size() = len: a field of fixed size n > 0 is compatible with n alone, a
\* field of size 0 with every length.
C15_LengthCompatible ==
    chk.asked => (chk.ok <=> (size(chk.field) = 0 \/ size(chk.field) = chk.len))

\* a size-0 field asked about a length other than 0, and a sized field
\* refused are both reached; this is the first
C15_Witness ==
    /\ chk.asked
    /\ size(chk.field) = 0
    /\ chk.len > 0
    /\ chk.ok

\* C16: each lazy static is initialized exactly once, before any caller
\* reads it, and is never written again: whatever the interleaving of the
\* callers, every read finds the table the one initializer run stored.
C16_BuiltOnce ==
    \A tb \in Statics :
        /\ builds[tb] <= 1
        /\ cell[tb] = builds[tb]
        /\ (once[tb] = "complete") <=> (cell[tb] = 1)
        /\ \A t \in DOMAIN thr : \A o \in thr[t].saw : o[1] = tb => o[2] = 1

\* never written again, stated on the steps: a stored table stays as it is
C16_NeverModified ==
    [][\A tb \in Statics : cell[tb] # 0 => cell'[tb] = cell[tb]]_vars

\* two callers both read PACKETS, one of them after waiting for the other
C16_Witness ==
    /\ pc = "threads"
    /\ builds["PACKETS"] = 1
    /\ \A t \in DOMAIN thr : <<"PACKETS", 1>> \in thr[t].saw
    /\ \E tb \in Statics \ {"PACKETS"} :
           \A t \in DOMAIN thr : <<tb, 1>> \in thr[t].saw

\* the payload offset of the header field with the name
HeaderOffset(name) ==
    SizesBefore(RangeHeaderFields,
                CHOOSE j \in 1..Len(RangeHeaderFields) : RangeHeaderFields[j].name = name)

\* the payload indices of the whole header field list, Reserved fields included
HeaderBytes == 0..(SizesBefore(RangeHeaderFields, Len(RangeHeaderFields) + 1) - 1)

\* C17: in RANGE_DATA the bytes of the header fields and of the successive
\* sub-records are disjoint and contiguous: the first sub-record starts at
\* the offset right after the "Number of Ranging Measurements" byte, and no
\* byte a sub-record reads is a byte of the header.
C17_SubRecordsAfterHeader ==
    (pkt # <<>> /\ PacketIdOf(pkt) = <<RANGING, 0, NTF>>)
    => /\ (pc = "range" /\ st.n = 0)
          => st.offset = HeaderOffset("Number of Ranging Measurements") + 1
       /\ (pc \in {"range", "done"} /\ st.n >= 1) => reads \cap HeaderBytes = {}

\* C18: in RANGE_DATA the MAC address width of the TWR sub-records follows
\* the byte the header reports as "Mac addressing mode", with the coding the
\* header displays (0 = short, 1 = long), and the sub-record layout follows
\* the byte reported as "Ranging type".
C18_MacModeByte ==
    (pkt # <<>> /\ PacketIdOf(pkt) = <<RANGING, 0, NTF>> /\ pc = "range")
    => /\ st.report_type = ReportTypeFrom(Get(pkt, HeaderOffset("Ranging type")))
       /\ Get(pkt, HeaderOffset("Mac addressing mode")) = 0 => st.mac_type = "Short"
       /\ Get(pkt, HeaderOffset("Mac addressing mode")) = 1 => st.mac_type = "Long"

====
